---------------------------- MODULE Spec2Model ----------------------------
(***************************************************************************)
(* Model of server_fixed.py: the per-ticker record builder get_etf_data    *)
(* with its helpers (safe_float, safe_bool, get_expense_ratio, the         *)
(* classifier, the RSI and SMA derivations, the lwowski score) and the     *)
(* batch loop of get_etfs.                                                 *)
(*                                                                         *)
(* Numbers.  Python floats are modelled by integers in fixed units, and    *)
(* float arithmetic by exact arithmetic on them:                           *)
(*   prices (snapshot price fields, Close, High)   1/1000 of a dollar      *)
(*   totalAssets, marketCap                        100,000 dollars         *)
(*   regularMarketVolume                           100,000 shares          *)
(*   expense ratios                                1/1,000,000             *)
(* round(x, n) is taken as round-half-to-even of the exact quotient.       *)
(* Infinite values in the snapshot are not modelled.                       *)
(*                                                                         *)
(* Text.  A Python str is a sequence of one-character strings.             *)
(*                                                                         *)
(* Control.  The print calls are steps without effect.  Inside the outer   *)
(* try of get_etfs nothing but the call get_etf_data(ticker) can raise, and *)
(* that call sits in the inner try, so the outer except (the "error"        *)
(* response) is never entered and has no action.  An exception that leaves  *)
(* get_etf_data past its own except is an outcome of the call the loop      *)
(* handles (BatchCalls, escapes).                                           *)
(*                                                                         *)
(* Values.  A value read from the snapshot is a record [k, v, s]: k is     *)
(* "absent" (key not in the dict), "none", "nan", "num" (v is the number), *)
(* "bool" (v is 1 or 0) or "str" (s is the text).                          *)
(***************************************************************************)
EXTENDS Integers, Sequences, FiniteSets, TLC

VARIABLES
    universe,   \* ETF_TICKERS as seen by get_etfs
    pc,         \* position of get_etfs / of the record builder
    i,          \* number of tickers the loop of get_etfs has processed
    results,    \* get_etfs: results
    errors,     \* get_etfs: errors
    response,   \* what get_etfs returned
    ticker,     \* the ticker being built
    provider,   \* what yfinance hands to get_etf_data for that ticker
    out,        \* the outcome of the call get_etf_data(ticker)
    log         \* history: for each processed ticker, the call and its outcome

vars == << universe, pc, i, results, errors, response, ticker, provider, out, log >>

---------------------------------------------------------------------------
(* Snapshot values *)

Absent == [k |-> "absent", v |-> 0, s |-> << >>]
PyNone == [k |-> "none", v |-> 0, s |-> << >>]
NaN == [k |-> "nan", v |-> 0, s |-> << >>]
Num(n) == [k |-> "num", v |-> n, s |-> << >>]
Str(t) == [k |-> "str", v |-> 0, s |-> t]

\* info.get(field, default): the default is used only when the key is missing
DictGet(info, field, default) ==
    IF info[field].k = "absent" THEN default ELSE info[field]

\* Python truthiness of a snapshot value (NaN is a non-zero float)
Truthy(value) ==
    CASE value.k \in {"num", "bool"} -> value.v # 0
      [] value.k = "str" -> Len(value.s) > 0
      [] value.k = "nan" -> TRUE
      [] OTHER -> FALSE

\* pd.isna(value) on a scalar
IsNa(value) == value.k \in {"none", "nan"}

Fields ==
    { "regularMarketPrice", "currentPrice", "regularMarketVolume",
      "fiftyTwoWeekHigh", "totalAssets", "marketCap", "longName", "shortName",
      "regularMarketPreviousClose", "annualReportExpenseRatio", "expenseRatio",
      "annualExpenseRatio", "prospectusNetExpenseRatio", "managementExpenseRatio" }

EmptyInfo == [f \in Fields |-> Absent]

---------------------------------------------------------------------------
(* Arithmetic helpers *)

Min(a, b) == IF a < b THEN a ELSE b
Max(a, b) == IF a > b THEN a ELSE b

\* int(n / d) for d > 0: Python's int() truncates toward zero
TruncDiv(n, d) == IF n >= 0 THEN n \div d ELSE -((-n) \div d)

\* round(n / d) to the nearest integer, ties to the even one, for d > 0
RoundHalfEven(n, d) ==
    LET q == n \div d
        r == n % d
    IN  IF 2 * r < d THEN q
        ELSE IF 2 * r > d THEN q + 1
        ELSE IF q % 2 = 0 THEN q ELSE q + 1

\* s[lo] + ... + s[hi], by halves
RECURSIVE SumRange(_, _, _)
SumRange(s, lo, hi) ==
    IF lo > hi THEN 0
    ELSE IF lo = hi THEN s[lo]
    ELSE LET mid == (lo + hi) \div 2
         IN  SumRange(s, lo, mid) + SumRange(s, mid + 1, hi)

SumSeq(s) == SumRange(s, 1, Len(s))

\* the trailing n elements of s (n <= Len(s))
LastN(s, n) == SubSeq(s, Len(s) - n + 1, Len(s))

---------------------------------------------------------------------------
(* Text helpers *)

UpperToLower ==
    "A" :> "a" @@ "B" :> "b" @@ "C" :> "c" @@ "D" :> "d" @@ "E" :> "e" @@ "F" :> "f"
    @@ "G" :> "g" @@ "H" :> "h" @@ "I" :> "i" @@ "J" :> "j" @@ "K" :> "k" @@ "L" :> "l"
    @@ "M" :> "m" @@ "N" :> "n" @@ "O" :> "o" @@ "P" :> "p" @@ "Q" :> "q" @@ "R" :> "r"
    @@ "S" :> "s" @@ "T" :> "t" @@ "U" :> "u" @@ "V" :> "v" @@ "W" :> "w" @@ "X" :> "x"
    @@ "Y" :> "y" @@ "Z" :> "z"

\* str.lower()
Lower(t) ==
    [j \in 1..Len(t) |->
        IF t[j] \in DOMAIN UpperToLower THEN UpperToLower[t[j]] ELSE t[j]]

\* kw in t
Contains(t, kw) ==
    \E j \in 1..(Len(t) - Len(kw) + 1) : SubSeq(t, j, j + Len(kw) - 1) = kw

\* str(value) of a snapshot value holding text, None or NaN
PyStr(value) ==
    CASE value.k = "str" -> value.s
      [] value.k = "none" -> << "N", "o", "n", "e" >>
      [] value.k = "nan" -> << "n", "a", "n" >>

---------------------------------------------------------------------------
(* Configuration data *)

ETF_TICKERS ==
    << <<"S","P","Y">>, <<"Q","Q","Q">>, <<"I","V","V">>, <<"V","O","O">>,
       <<"V","T","I">>, <<"B","N","D">>, <<"A","G","G">>, <<"G","L","D">>,
       <<"S","L","V">>, <<"I","E","F","A">>, <<"E","E","M">>, <<"V","W","O">>,
       <<"T","L","T">>, <<"I","W","M">>, <<"X","L","K">>, <<"X","L","V">>,
       <<"X","L","E">>, <<"X","L","F">>, <<"X","L","I">>, <<"X","L","B">>,
       <<"X","L","P">>, <<"X","L","U">>, <<"X","L","Y">>, <<"S","M","H">>,
       <<"S","O","X","X">>, <<"I","B","B">>, <<"K","B","E">>, <<"K","R","E">>,
       <<"U","S","O">>, <<"U","N","G">>, <<"H","Y","G">>, <<"L","Q","D">>,
       <<"S","H","Y">>, <<"I","E","I">>, <<"T","I","P">>, <<"V","N","Q">>,
       <<"D","B","C">>, <<"G","D","X">>, <<"G","D","X","J">>, <<"E","W","J">>,
       <<"M","C","H","I">>, <<"F","X","I">>, <<"I","N","D","A">>, <<"E","P","I">>,
       <<"E","W","Z">>, <<"A","R","K","K">>, <<"A","R","K","W">>, <<"A","R","K","G">>,
       <<"Q","C","L","N">>, <<"T","A","N">>, <<"I","C","L","N">>, <<"P","B","W">>,
       <<"X","B","I">>, <<"L","A","B","U">>, <<"B","L","O","K">>, <<"F","I","N","X">>,
       <<"L","I","T">>, <<"R","E","M","X">>, <<"U","R","A">>, <<"K","O","L">>,
       <<"S","C","H","D">>, <<"V","Y","M">>, <<"V","I","G">>, <<"N","O","B","L">>,
       <<"S","P","H","D">>, <<"J","E","P","I">>, <<"J","E","P","Q">>, <<"D","I","V","O">>,
       <<"S","C","H","G">>, <<"V","U","G">>, <<"I","V","W">>, <<"I","J","R">>,
       <<"I","J","H">>, <<"I","J","S">>, <<"I","J","T">>, <<"A","V","U","V">>,
       <<"A","V","D","V">>, <<"A","V","E","M">>, <<"A","V","D","E">>, <<"A","V","U","S">> >>

known_expenses ==
    <<"S","P","Y">> :> 94500  @@  <<"Q","Q","Q">> :> 200000  @@  <<"I","V","V">> :> 40000 @@
    <<"V","O","O">> :> 30000  @@  <<"V","T","I">> :> 30000  @@  <<"B","N","D">> :> 30000 @@
    <<"A","G","G">> :> 30000  @@  <<"G","L","D">> :> 400000  @@  <<"S","L","V">> :> 500000 @@
    <<"I","E","F","A">> :> 70000  @@  <<"E","E","M">> :> 680000  @@  <<"V","W","O">> :> 80000 @@
    <<"T","L","T">> :> 150000  @@  <<"I","W","M">> :> 190000  @@  <<"X","L","K">> :> 100000 @@
    <<"X","L","V">> :> 100000  @@  <<"X","L","E">> :> 100000  @@  <<"X","L","F">> :> 100000 @@
    <<"X","L","I">> :> 100000  @@  <<"X","L","B">> :> 100000  @@  <<"X","L","P">> :> 100000 @@
    <<"X","L","U">> :> 100000  @@  <<"X","L","Y">> :> 100000  @@  <<"S","M","H">> :> 350000 @@
    <<"S","O","X","X">> :> 350000  @@  <<"I","B","B">> :> 450000  @@  <<"K","B","E">> :> 350000 @@
    <<"K","R","E">> :> 350000  @@  <<"U","S","O">> :> 600000  @@  <<"U","N","G">> :> 600000 @@
    <<"H","Y","G">> :> 490000  @@  <<"L","Q","D">> :> 140000  @@  <<"S","H","Y">> :> 150000 @@
    <<"I","E","I">> :> 150000  @@  <<"T","I","P">> :> 190000  @@  <<"V","N","Q">> :> 120000 @@
    <<"D","B","C">> :> 850000  @@  <<"G","D","X">> :> 510000  @@  <<"G","D","X","J">> :> 510000 @@
    <<"E","W","J">> :> 490000  @@  <<"M","C","H","I">> :> 590000  @@  <<"F","X","I">> :> 740000 @@
    <<"I","N","D","A">> :> 640000  @@  <<"E","P","I">> :> 590000  @@  <<"E","W","Z">> :> 590000 @@
    <<"A","R","K","K">> :> 750000  @@  <<"A","R","K","W">> :> 750000  @@  <<"A","R","K","G">> :> 750000 @@
    <<"Q","C","L","N">> :> 400000  @@  <<"T","A","N">> :> 650000  @@  <<"I","C","L","N">> :> 460000 @@
    <<"P","B","W">> :> 600000  @@  <<"X","B","I">> :> 350000  @@  <<"L","A","B","U">> :> 1480000 @@
    <<"B","L","O","K">> :> 750000  @@  <<"F","I","N","X">> :> 680000  @@  <<"L","I","T">> :> 750000 @@
    <<"R","E","M","X">> :> 650000  @@  <<"U","R","A">> :> 700000  @@  <<"K","O","L">> :> 650000 @@
    <<"S","C","H","D">> :> 60000  @@  <<"V","Y","M">> :> 60000  @@  <<"V","I","G">> :> 60000 @@
    <<"N","O","B","L">> :> 350000  @@  <<"S","P","H","D">> :> 280000  @@  <<"J","E","P","I">> :> 350000 @@
    <<"J","E","P","Q">> :> 350000  @@  <<"D","I","V","O">> :> 500000  @@  <<"S","C","H","G">> :> 40000 @@
    <<"V","U","G">> :> 40000  @@  <<"I","V","W">> :> 180000  @@  <<"I","J","R">> :> 60000 @@
    <<"I","J","H">> :> 50000  @@  <<"I","J","S">> :> 180000  @@  <<"I","J","T">> :> 180000 @@
    <<"A","V","U","V">> :> 250000  @@  <<"A","V","D","V">> :> 360000  @@  <<"A","V","E","M">> :> 330000 @@
    <<"A","V","D","E">> :> 270000  @@  <<"A","V","U","S">> :> 150000

bond_keywords ==
    { <<"b","o","n","d">>,
      <<"t","r","e","a","s","u","r","y">>,
      <<"a","g","g","r","e","g","a","t","e">>,
      <<"f","i","x","e","d"," ","i","n","c","o","m","e">>,
      <<"c","o","r","p","o","r","a","t","e"," ","b","o","n","d">>,
      <<"m","u","n","i","c","i","p","a","l">> }

commodity_keywords ==
    { <<"g","o","l","d">>,
      <<"s","i","l","v","e","r">>,
      <<"o","i","l">>,
      <<"c","o","m","m","o","d","i","t","y">>,
      <<"m","e","t","a","l","s">>,
      <<"e","n","e","r","g","y">>,
      <<"n","a","t","u","r","a","l"," ","g","a","s">> }

fixed_income_symbols ==
    { <<"b","n","d">>,
      <<"a","g","g">>,
      <<"t","l","t">>,
      <<"s","h","y">>,
      <<"i","e","i">>,
      <<"l","q","d">>,
      <<"h","y","g">> }

commodity_symbols ==
    { <<"g","l","d">>,
      <<"s","l","v">>,
      <<"u","s","o">>,
      <<"u","n","g">>,
      <<"d","b","c">> }


\* known_expenses.get(ticker, 0.30)
DEFAULT_EXPENSE == 300000

\* the rolling windows of the moving averages and of the RSI
SMA50_WINDOW == 50
SMA150_WINDOW == 150
SMA200_WINDOW == 200
RSI_WINDOW == 14

\* rsi = 50, lwowski = 5000 and its clamp, name[:60]
DEFAULT_RSI == 50
DEFAULT_LWOWSKI == 5000
LWOWSKI_MIN == 1000
LWOWSKI_MAX == 99999
NAME_MAX == 60

\* (aum / 1e6) * (volume / 1e6) / 100 with aum and volume in units of 1e5
LWOWSKI_DIVISOR == 10000

---------------------------------------------------------------------------
(* Numeric primitives *)

PyBool(b) == [k |-> "bool", v |-> IF b THEN 1 ELSE 0, s |-> << >>]

\* safe_bool(value): bool(value) if value is not None else False
safe_bool(value) == IF value.k = "none" THEN FALSE ELSE Truthy(value)

\* safe_float(value, default): None and NaN give the default, a number gives
\* itself, and text that float() rejects gives the default through the except
safe_float(value, default) ==
    IF value.k = "none" \/ IsNa(value) THEN default
    ELSE IF value.k \in {"num", "bool"} THEN value.v
    ELSE default

\* a and b for Python values: a when a is falsy, else b
PyAnd(a, b) == IF Truthy(a) THEN b ELSE a

---------------------------------------------------------------------------
(* Expense ratio resolver *)

expense_fields ==
    << "annualReportExpenseRatio", "expenseRatio", "annualExpenseRatio",
       "prospectusNetExpenseRatio", "managementExpenseRatio" >>

\* One pass of "for field in expense_fields" from position j on.  The test
\* "value and not pd.isna(value) and value > 0" short-circuits left to right;
\* "value > 0" on a non-empty str raises TypeError.
\* Result: [raised, value]; found tells whether the loop returned.
RECURSIVE ScanExpenseFields(_, _)
ScanExpenseFields(info, j) ==
    IF j > Len(expense_fields)
    THEN [raised |-> FALSE, found |-> FALSE, value |-> 0]
    ELSE LET value == DictGet(info, expense_fields[j], PyNone)
         IN  IF ~Truthy(value) \/ IsNa(value)
             THEN ScanExpenseFields(info, j + 1)
             ELSE IF value.k = "str"
             THEN [raised |-> TRUE, found |-> FALSE, value |-> 0]
             ELSE IF value.v > 0
             THEN [raised |-> FALSE, found |-> TRUE, value |-> safe_float(value, 0)]
             ELSE ScanExpenseFields(info, j + 1)

\* known_expenses.get(ticker, 0.30)
KnownExpense(t) ==
    IF t \in DOMAIN known_expenses THEN known_expenses[t] ELSE DEFAULT_EXPENSE

\* get_expense_ratio with a slip: the static table is consulted first
get_expense_ratio_TableFirst(info, t) ==
    IF t \in DOMAIN known_expenses THEN [raised |-> FALSE, value |-> known_expenses[t]]
    ELSE LET scan == ScanExpenseFields(info, 1)
         IN  IF scan.raised THEN [raised |-> TRUE, value |-> 0]
             ELSE IF scan.found THEN [raised |-> FALSE, value |-> scan.value]
             ELSE [raised |-> FALSE, value |-> DEFAULT_EXPENSE]

\* get_expense_ratio(info, ticker): [raised, value]
get_expense_ratio(info, t) ==
    LET scan == ScanExpenseFields(info, 1)
    IN  IF scan.raised THEN [raised |-> TRUE, value |-> 0]
        ELSE IF scan.found THEN [raised |-> FALSE, value |-> scan.value]
        ELSE [raised |-> FALSE, value |-> KnownExpense(t)]

---------------------------------------------------------------------------
(* Indicators over the price series: hist is a sequence of bars             *)
(* [Close, High], oldest first                                              *)

Closes(hist) == [j \in 1..Len(hist) |-> hist[j].Close]

\* hist['High'].max() of a non-empty series
MaxHigh(hist) ==
    CHOOSE h \in { hist[j].High : j \in 1..Len(hist) } :
        \A j \in 1..Len(hist) : hist[j].High <= h

\* hist['Close'].rolling(n).mean().iloc[-1] when len(hist) >= n, else None.
\* The value is the window sum: the mean times n.
Sma(hist, n) ==
    IF Len(hist) >= n THEN Num(SumSeq(LastN(Closes(hist), n))) ELSE PyNone

\* a > b for two means given as window sums over na and nb bars
MeanGt(a, na, b, nb) == PyBool(a.v * nb > b.v * na)

\* hist['Close'].diff(): the first entry is NaN, which both where() calls
\* replace by 0
Gain(hist) ==
    [j \in 1..Len(hist) |->
        IF j = 1 THEN 0
        ELSE IF hist[j].Close - hist[j - 1].Close > 0
             THEN hist[j].Close - hist[j - 1].Close ELSE 0]

Loss(hist) ==
    [j \in 1..Len(hist) |->
        IF j = 1 THEN 0
        ELSE IF hist[j].Close - hist[j - 1].Close < 0
             THEN -(hist[j].Close - hist[j - 1].Close) ELSE 0]

\* Rsi with a guard "if loss == 0: keep the default" before the division
Rsi_DefaultOnZeroLoss(hist) ==
    IF Len(hist) < RSI_WINDOW THEN DEFAULT_RSI
    ELSE LET gain == SumSeq(LastN(Gain(hist), RSI_WINDOW))
             loss == SumSeq(LastN(Loss(hist), RSI_WINDOW))
         IN  IF loss = 0 THEN DEFAULT_RSI ELSE TruncDiv(100 * gain, gain + loss)

\* rsi: gain / loss is a float division, so a zero loss gives inf when the
\* gain is positive (rsi_val = 100 - 100 / inf = 100) and NaN when the gain
\* is zero too (rsi stays 50); otherwise int(100 - 100 / (1 + rs))
Rsi(hist) ==
    IF Len(hist) < RSI_WINDOW THEN DEFAULT_RSI
    ELSE LET gain == SumSeq(LastN(Gain(hist), RSI_WINDOW))
             loss == SumSeq(LastN(Loss(hist), RSI_WINDOW))
         IN  IF loss = 0
             THEN IF gain = 0 THEN DEFAULT_RSI ELSE 100
             ELSE TruncDiv(100 * gain, gain + loss)

---------------------------------------------------------------------------
(* Classifier *)

AssetClass(name, t) ==
    LET name_lower == Lower(name)
        ticker_lower == Lower(t)
    IN  IF (\E kw \in bond_keywords : Contains(name_lower, kw))
           \/ (\E kw \in fixed_income_symbols : Contains(ticker_lower, kw))
        THEN "Fixed Income"
        ELSE IF (\E kw \in commodity_keywords : Contains(name_lower, kw))
                \/ (\E kw \in commodity_symbols : Contains(ticker_lower, kw))
        THEN "Commodity"
        ELSE "Equity"

---------------------------------------------------------------------------
(* Liquidity score *)

\* Lwowski with a slip: only the upper clamp is applied
Lwowski_NoLowerClamp(aum, volume) ==
    IF aum # 0 /\ volume # 0
    THEN Min(LWOWSKI_MAX, TruncDiv(aum * volume, LWOWSKI_DIVISOR))
    ELSE DEFAULT_LWOWSKI

\* lwowski: the default 5000 unless aum and volume are both truthy
Lwowski(aum, volume) ==
    IF aum # 0 /\ volume # 0
    THEN Max(LWOWSKI_MIN, Min(LWOWSKI_MAX, TruncDiv(aum * volume, LWOWSKI_DIVISOR)))
    ELSE DEFAULT_LWOWSKI

---------------------------------------------------------------------------
(* Record builder *)

RECURSIVE Digits(_)
Digits(n) ==
    LET d == << "0", "1", "2", "3", "4", "5", "6", "7", "8", "9" >>
    IN  IF n < 10 THEN << d[n + 1] >> ELSE Digits(n \div 10) \o << d[(n % 10) + 1] >>

\* str(n) of an int
PyStrInt(n) == IF n < 0 THEN << "-" >> \o Digits(-n) ELSE Digits(n)

\* str(int(aum / 1e6)) if aum else 'N/A', aum in units of 1e5
AumText(aum) == IF aum # 0 THEN PyStrInt(TruncDiv(aum, 10)) ELSE << "N", "/", "A" >>

\* price: the nested info.get defaults, then safe_float
Price(info, hist) ==
    safe_float(
        DictGet(info, "regularMarketPrice",
            DictGet(info, "currentPrice",
                IF hist # << >> THEN Num(hist[Len(hist)].Close) ELSE Num(0))),
        0)

Week52High(info, hist, price) ==
    safe_float(
        DictGet(info, "fiftyTwoWeekHigh",
            IF hist # << >> THEN Num(MaxHigh(hist)) ELSE Num(price)),
        0)

\* Near52wPct with a slip: "else 0" for "else 100"
Near52wPct_ZeroDefault(price, week52_high) ==
    IF week52_high > 0 THEN RoundHalfEven(price * 1000, week52_high) ELSE 0

\* near_52w_pct in tenths of a percent, after round(.., 1)
Near52wPct(price, week52_high) ==
    IF week52_high # 0 /\ week52_high > 0
    THEN RoundHalfEven(price * 1000, week52_high)
    ELSE 1000

\* prev_close in cents after round(.., 2); price * 0.99 when the key is missing
PrevClose(info, price) ==
    IF info["regularMarketPreviousClose"].k = "absent"
    THEN RoundHalfEven(price * 99, 1000)
    ELSE RoundHalfEven(safe_float(info["regularMarketPreviousClose"], 0), 10)

\* round(volume / 1e6, 1) in tenths of a million: volume is held in units of
\* 100,000 shares, which are tenths of a million, so the rounding keeps it
VolumeTenths(volume) == RoundHalfEven(volume * 10, 10)

\* convert_to_python_types(result): every value of the record is a native
\* str, int, float or bool that is not NaN, which the function returns as is
convert_to_python_types(obj) == [f \in DOMAIN obj |-> obj[f]]

NoneResult == [kind |-> "None"]

\* get_etf_data(ticker): prov is what yfinance returns for the ticker,
\* [fails, info, hist]; fails stands for etf.info or etf.history raising.
\* Any exception ends in "return None".
get_etf_data(t, prov) ==
    IF prov.fails THEN NoneResult
    ELSE
    LET info == prov.info
        hist == prov.hist
        sma50 == Sma(hist, SMA50_WINDOW)
        sma150 == Sma(hist, SMA150_WINDOW)
        sma200 == Sma(hist, SMA200_WINDOW)
        price == Price(info, hist)
        volume == safe_float(DictGet(info, "regularMarketVolume", Num(0)), 0)
        week52_high == Week52High(info, hist, price)
        aum == safe_float(DictGet(info, "totalAssets", DictGet(info, "marketCap", Num(0))), 0)
        expense_ratio == get_expense_ratio(info, t)
        name == PyStr(DictGet(info, "longName", DictGet(info, "shortName", Str(t))))
    IN  IF expense_ratio.raised THEN NoneResult
        ELSE convert_to_python_types(
          [ kind |-> "record",
            ticker |-> t,
            name |-> SubSeq(name, 1, Min(NAME_MAX, Len(name))),
            asset |-> AssetClass(name, t),
            lwowski |-> Lwowski(aum, volume),
            price |-> RoundHalfEven(price, 10),
            closeAbove52w |-> safe_bool(PyBool(price * 100 >= week52_high * 98)),
            sma50gt150 |->
                safe_bool(PyAnd(sma50, PyAnd(sma150,
                    MeanGt(sma50, SMA50_WINDOW, sma150, SMA150_WINDOW)))),
            sma150gt200 |->
                safe_bool(PyAnd(sma150, PyAnd(sma200,
                    MeanGt(sma150, SMA150_WINDOW, sma200, SMA200_WINDOW)))),
            sma200Slope |->
                safe_bool(PyAnd(sma200, MeanGt(Num(price), 1, sma200, SMA200_WINDOW))),
            aum |-> AumText(aum),
            rsi |-> Rsi(hist),
            near52wpct |-> Near52wPct(price, week52_high),
            week52High |-> RoundHalfEven(week52_high, 10),
            prevClose |-> PrevClose(info, price),
            volume |-> VolumeTenths(volume),
            expense |-> RoundHalfEven(expense_ratio.value, 100) ])

---------------------------------------------------------------------------
(* Batch orchestrator: get_etfs *)

Raised == [kind |-> "raised"]

\* "if data:" - a dict with keys is truthy, None is not
DataTruthy(data) == data.kind = "record"

\* LoopBody with a slip: a call that gave no record is appended to results too
LoopBody_AppendsNone(res, errs, t, data) ==
    IF data.kind = "record" THEN [results |-> Append(res, data), errors |-> errs]
    ELSE [results |-> Append(res, NoneResult), errors |-> Append(errs, t)]

\* LoopBody with a slip: results.insert(0, data) for results.append(data)
LoopBody_Prepends(res, errs, t, data) ==
    IF data.kind = "record" THEN [results |-> << data >> \o res, errors |-> errs]
    ELSE [results |-> res, errors |-> Append(errs, t)]

\* One pass of the body of "for i, ticker in enumerate(ETF_TICKERS)":
\* data is what the call get_etf_data(ticker) gave (a record, None, or an
\* exception that reached the inner except)
LoopBody(res, errs, t, data) ==
    IF data = Raised THEN [results |-> res, errors |-> Append(errs, t)]
    ELSE IF DataTruthy(data) THEN [results |-> Append(res, data), errors |-> errs]
    ELSE [results |-> res, errors |-> Append(errs, t)]

\* jsonify({'status': 'success', 'count': len(results), 'data': results})
SuccessResponse(res) == [status |-> "success", count |-> Len(res), data |-> res]

NoResponse == [status |-> "none", count |-> 0, data |-> << >>]
NoProvider == [fails |-> FALSE, info |-> EmptyInfo, hist |-> << >>]

---------------------------------------------------------------------------
(* Inputs *)

NAME_BOND ==
    << "V", "a", "n", "g", "u", "a", "r", "d", " ", "T", "o", "t", "a", "l",
       " ", "B", "o", "n", "d", " ", "M", "a", "r", "k", "e", "t", " ", "E",
       "T", "F" >>

NAME_GOLD ==
    << "S", "P", "D", "R", " ", "G", "o", "l", "d", " ", "S", "h", "a", "r",
       "e", "s" >>

NAME_TREASURY ==
    << "i", "S", "h", "a", "r", "e", "s", " ", "2", "0", "+", " ", "Y", "e",
       "a", "r", " ", "T", "r", "e", "a", "s", "u", "r", "y", " ", "E", "T",
       "F" >>

NAME_ENERGY ==
    << "E", "n", "e", "r", "g", "y", " ", "S", "e", "l", "e", "c", "t", " ",
       "S", "e", "c", "t", "o", "r", " ", "S", "P", "D", "R", " ", "F", "u",
       "n", "d" >>

NAME_EQUITY ==
    << "S", "P", "D", "R", " ", "S", "&", "P", " ", "5", "0", "0", " ", "E",
       "T", "F", " ", "T", "r", "u", "s", "t" >>

NAME_GOLD_TREASURY ==
    << "G", "o", "l", "d", " ", "a", "n", "d", " ", "T", "r", "e", "a", "s",
       "u", "r", "y", " ", "F", "u", "n", "d" >>

NAME_LONG ==
    << "G", "l", "o", "b", "a", "l", " ", "X", " ", "L", "o", "n", "g", " ",
       "D", "u", "r", "a", "t", "i", "o", "n", " ", "I", "n", "v", "e", "s",
       "t", "m", "e", "n", "t", " ", "G", "r", "a", "d", "e", " ", "E", "x",
       "c", "h", "a", "n", "g", "e", " ", "T", "r", "a", "d", "e", "d", " ",
       "T", "r", "u", "s", "t", " ", "f", "o", "r", " ", "M", "u", "n", "i",
       "c", "i", "p", "a", "l", " ", "I", "n", "c", "o", "m", "e" >>

NAME_SILVER ==
    << "S", "i", "l", "v", "e", "r", " ", "T", "r", "u", "s", "t" >>

NAME_GROWTH ==
    << "G", "r", "o", "w", "t", "h", " ", "F", "u", "n", "d" >>

NAME_NA ==
    << "N", "/", "A" >>

T_SPY == << "S", "P", "Y" >>
T_AGG == << "A", "G", "G" >>
T_TLT == << "T", "L", "T" >>
T_GLD == << "G", "L", "D" >>
T_DBC == << "D", "B", "C" >>
T_TLTW == << "T", "L", "T", "W" >>
T_GLDM == << "G", "L", "D", "M" >>
T_BNDX == << "B", "N", "D", "X" >>
T_OIL == << "O", "I", "L" >>
T_ZZZ == << "Z", "Z", "Z" >>

MaxUniverse == 3
MaxBars == 16

Bar(c) == [Close |-> c, High |-> c + 250]

\* n bars from p0 on, each close step above the one before
Ramp(n, p0, step) == [j \in 1..n |-> Bar(p0 + step * (j - 1))]

\* n bars at p0, moved by d1 from bar k1 on and by d2 from bar k2 on
TwoStep(n, p0, k1, d1, k2, d2) ==
    [j \in 1..n |->
        Bar(p0 + (IF j >= k1 THEN d1 ELSE 0) + (IF j >= k2 THEN d2 ELSE 0))]

With(info, field, value) == [info EXCEPT ![field] = value]

TickerPool == { ETF_TICKERS[1], ETF_TICKERS[6] }

RECURSIVE SeqsUpTo(_, _)
SeqsUpTo(S, n) ==
    IF n = 0 THEN { << >> }
    ELSE LET shorter == SeqsUpTo(S, n - 1)
         IN  shorter \cup { Append(s, x) : s \in shorter, x \in S }

Universes == SeqsUpTo(TickerPool, MaxUniverse)

FullInfo ==
    [EmptyInfo EXCEPT
        !["regularMarketPrice"] = Num(101505),
        !["regularMarketVolume"] = Num(850),
        !["fiftyTwoWeekHigh"] = Num(103000),
        !["totalAssets"] = Num(12345),
        !["longName"] = Str(NAME_BOND),
        !["regularMarketPreviousClose"] = Num(100995),
        !["expenseRatio"] = Num(945)]

EmptyResponse == [fails |-> FALSE, info |-> EmptyInfo, hist |-> << >>]

\* what the provider may hand to one call of the batch
BatchResponses ==
    { [fails |-> TRUE, info |-> EmptyInfo, hist |-> << >>],
      EmptyResponse,
      [fails |-> FALSE, info |-> FullInfo, hist |-> Ramp(15, 100000, 100)],
      [fails |-> FALSE, info |-> With(EmptyInfo, "expenseRatio", Str(NAME_NA)),
       hist |-> Ramp(14, 100000, -100)],
      [fails |-> FALSE, info |-> With(EmptyInfo, "regularMarketPrice", PyNone),
       hist |-> Ramp(SMA50_WINDOW, 20000, 10)] }

\* a call either runs get_etf_data on a provider response or ends in an
\* exception that leaves get_etf_data
BatchCalls ==
    { [escapes |-> FALSE, prov |-> p] : p \in BatchResponses }
    \cup { [escapes |-> TRUE, prov |-> EmptyResponse] }

ExpenseVals ==
    { Absent, PyNone, NaN, Num(0), Num(-500), Num(945), Num(2050), Str(NAME_NA) }

ExpenseInfos ==
    { [EmptyInfo EXCEPT
          !["annualReportExpenseRatio"] = a, !["expenseRatio"] = b,
          !["annualExpenseRatio"] = c, !["prospectusNetExpenseRatio"] = d,
          !["managementExpenseRatio"] = e] :
      a \in ExpenseVals, b \in ExpenseVals, c \in ExpenseVals,
      d \in ExpenseVals, e \in ExpenseVals }

RsiSteps == { -1500, 0, 1000 }

RsiSeries ==
    { TwoStep(n, 100000, k1, d1, k2, d2) :
      n \in 12..MaxBars, k1 \in 2..MaxBars, d1 \in RsiSteps,
      k2 \in 2..MaxBars, d2 \in RsiSteps }

NameVals ==
    { Absent, PyNone, Str(NAME_BOND), Str(NAME_GOLD), Str(NAME_TREASURY),
      Str(NAME_ENERGY), Str(NAME_EQUITY), Str(NAME_GOLD_TREASURY), Str(NAME_LONG) }

ShortNameVals == { Absent, Str(NAME_SILVER), Str(NAME_GROWTH) }

ClassTickers ==
    { T_SPY, T_AGG, T_TLT, T_GLD, T_DBC, T_TLTW, T_GLDM, T_BNDX, T_OIL, T_ZZZ }

AumVals ==
    { Absent, PyNone, NaN, Str(NAME_NA), Num(0), Num(-30000), Num(7),
      Num(12345), Num(2000000) }

VolumeVals ==
    { Absent, PyNone, NaN, Num(0), Num(-5), Num(3), Num(850), Num(1000) }

PriceVals ==
    { Absent, PyNone, NaN, Str(NAME_NA), Num(0), Num(101505), Num(99994) }

PriceSeries ==
    { << >>, Ramp(1, 98765, 0), Ramp(14, 100000, 75),
      Ramp(SMA50_WINDOW, 30000, -20), Ramp(SMA200_WINDOW, 20000, 10) }

---------------------------------------------------------------------------
(* Specifications *)

Idle(u) ==
    /\ universe = u
    /\ i = 0
    /\ results = << >>
    /\ errors = << >>
    /\ response = NoResponse
    /\ out = NoneResult
    /\ log = << >>

\* a request for /api/etfs arrives
Init ==
    /\ \E u \in Universes : Idle(u)
    /\ pc = "request"
    /\ ticker = << >>
    /\ provider = NoProvider

\* results = [], total = len(ETF_TICKERS), errors = []
Begin ==
    /\ pc = "request"
    /\ results' = << >>
    /\ errors' = << >>
    /\ i' = 0
    /\ pc' = "loop"
    /\ UNCHANGED << universe, response, ticker, provider, out, log >>

\* one iteration of the loop over the universe
Iterate ==
    /\ pc = "loop"
    /\ i < Len(universe)
    /\ \E call \in BatchCalls :
        LET t == universe[i + 1]
            data == IF call.escapes THEN Raised ELSE get_etf_data(t, call.prov)
            body == LoopBody(results, errors, t, data)
        IN  /\ ticker' = t
            /\ provider' = call.prov
            /\ out' = data
            /\ results' = body.results
            /\ errors' = body.errors
            /\ log' = Append(log, [ticker |-> t, provider |-> call.prov, out |-> data])
    /\ i' = i + 1
    /\ UNCHANGED << universe, pc, response >>

\* the loop is over: return the success response
Finish ==
    /\ pc = "loop"
    /\ i = Len(universe)
    /\ response' = SuccessResponse(results)
    /\ pc' = "done"
    /\ UNCHANGED << universe, i, results, errors, ticker, provider, out, log >>

Next == Begin \/ Iterate \/ Finish

Spec == Init /\ [][Next]_vars

\* get_etf_data alone, on one ticker and one provider response
Build ==
    /\ pc = "build"
    /\ out' = get_etf_data(ticker, provider)
    /\ pc' = "built"
    /\ UNCHANGED << universe, i, results, errors, response, ticker, provider, log >>

InitBuild(t, info, hist) ==
    /\ Idle(<< >>)
    /\ pc = "build"
    /\ ticker = t
    /\ provider = [fails |-> FALSE, info |-> info, hist |-> hist]

InitExpense ==
    \E t \in { T_SPY, T_ZZZ }, info \in ExpenseInfos : InitBuild(t, info, << >>)

InitRSI ==
    \E hist \in RsiSeries : InitBuild(T_SPY, EmptyInfo, hist)

InitClass ==
    \E t \in ClassTickers, ln \in NameVals, sn \in ShortNameVals :
        InitBuild(t, [EmptyInfo EXCEPT !["longName"] = ln, !["shortName"] = sn], << >>)

InitLiq ==
    \E ta \in AumVals, mc \in AumVals, vol \in VolumeVals :
        InitBuild(T_SPY,
            [EmptyInfo EXCEPT !["totalAssets"] = ta, !["marketCap"] = mc,
                              !["regularMarketVolume"] = vol],
            << >>)

InitPrice ==
    \E rmp \in PriceVals, cp \in PriceVals, hi \in { Absent, NaN, Num(103000) },
       pv \in { Absent, PyNone, Num(100995) }, hist \in PriceSeries :
        InitBuild(T_SPY,
            [EmptyInfo EXCEPT !["regularMarketPrice"] = rmp, !["currentPrice"] = cp,
                              !["fiftyTwoWeekHigh"] = hi,
                              !["regularMarketPreviousClose"] = pv],
            hist)

SpecExpense == InitExpense /\ [][Build]_vars
SpecRSI == InitRSI /\ [][Build]_vars
SpecClass == InitClass /\ [][Build]_vars
SpecLiq == InitLiq /\ [][Build]_vars
SpecPrice == InitPrice /\ [][Build]_vars


---------------------------------------------------------------------------
(* Properties of the batch (Spec) *)

RecordFields ==
    { "kind", "ticker", "name", "asset", "lwowski", "price", "closeAbove52w",
      "sma50gt150", "sma150gt200", "sma200Slope", "aum", "rsi", "near52wpct",
      "week52High", "prevClose", "volume", "expense" }

\* the records the logged calls returned, in call order
RecordsOf(l) ==
    LET sel == SelectSeq(l, LAMBDA e : e.out.kind = "record")
    IN  [k \in 1..Len(sel) |-> sel[k].out]

\* the tickers of the logged calls that returned no record, in call order
FailedOf(l) ==
    LET sel == SelectSeq(l, LAMBDA e : e.out.kind # "record")
    IN  [k \in 1..Len(sel) |-> sel[k].ticker]

\* C1: after every iteration of the loop of get_etfs and at its end, each
\* ticker processed so far is in exactly one of results and errors - the
\* tickers whose call gave a record in results, all others (None returned or
\* exception raised) in errors - so the two lengths add up to the number of
\* tickers processed, and to len(universe) at the end; and results holds
\* complete records only, never a None or a partial record.
C1_EveryTickerInExactlyOneList ==
    pc \in { "loop", "done" } =>
        /\ Len(log) = i
        /\ \A k \in 1..i : log[k].ticker = universe[k]
        /\ Len(results) = Cardinality({ k \in 1..i : log[k].out.kind = "record" })
        /\ errors = FailedOf(log)
        /\ Len(results) + Len(errors) = i
        /\ \A k \in 1..Len(results) :
            results[k].kind = "record" /\ DOMAIN results[k] = RecordFields
        /\ (pc = "done" => Len(results) + Len(errors) = Len(universe))

C1_Witness ==
    /\ pc = "done"
    /\ Len(universe) >= 3
    /\ \E a, b, c \in 1..Len(log) :
        /\ log[a].out.kind = "record"
        /\ log[b].out.kind = "None"
        /\ log[c].out.kind = "raised"
    /\ Len(results) + Len(errors) = Len(universe)
    /\ Len(errors) >= 2

\* C2: whatever tickers fail, get_etfs processes every ticker of the
\* universe, in order, and returns status "success" with data exactly the
\* records of the tickers that did not fail, in universe order, and count
\* the number of those records.
C2_SuccessWithSurvivorsInOrder ==
    pc = "done" =>
        /\ Len(log) = Len(universe)
        /\ \A k \in 1..Len(universe) : log[k].ticker = universe[k]
        /\ response.status = "success"
        /\ response.data = RecordsOf(log)
        /\ response.count = Len(RecordsOf(log))

C2_Witness ==
    /\ pc = "done"
    /\ Len(universe) = 3
    /\ log[1].out.kind = "record"
    /\ log[2].out.kind # "record"
    /\ log[3].out.kind = "record"
    /\ log[1].out # log[3].out
    /\ response = [status |-> "success", count |-> 2, data |-> << log[1].out, log[3].out >>]

\* C10: a ticker for which the provider returns, without raising, an empty
\* price series and a snapshot with no fields is a success: the call returns
\* a complete record with price 0, week52High 0, prevClose 0, volume 0,
\* near52wpct 100, rsi 50, lwowski 5000, aum 'N/A', the ticker as name, the
\* three SMA flags false and closeAbove52w true, and get_etfs appends it to
\* results, returns it in data and counts it.
C10_EmptyFetchIsASuccess ==
    \A k \in 1..Len(log) :
        (log[k].provider = EmptyResponse /\ log[k].out # Raised) =>
            LET r == log[k].out
                n == Len(RecordsOf(SubSeq(log, 1, k)))
            IN  /\ r.kind = "record"
                /\ DOMAIN r = RecordFields
                /\ r.price = 0 /\ r.week52High = 0 /\ r.prevClose = 0 /\ r.volume = 0
                /\ r.near52wpct = 1000 /\ r.rsi = 50 /\ r.lwowski = 5000
                /\ r.aum = << "N", "/", "A" >>
                /\ r.name = log[k].ticker /\ r.ticker = log[k].ticker
                /\ ~r.sma50gt150 /\ ~r.sma150gt200 /\ ~r.sma200Slope
                /\ r.closeAbove52w
                /\ n >= 1 /\ Len(results) >= n /\ results[n] = r
                /\ (pc = "done" => response.data[n] = r /\ response.count >= n)

C10_Witness ==
    /\ pc = "done"
    /\ \E k \in 1..Len(log) :
        /\ log[k].provider = EmptyResponse
        /\ log[k].out.kind = "record"
        /\ log[k].out.price = 0
        /\ log[k].out \in { response.data[n] : n \in 1..Len(response.data) }
    /\ response.count >= 1

---------------------------------------------------------------------------
(* Properties of the expense ratio resolver (SpecExpense) *)

ExpenseField(j) == provider.info[expense_fields[j]]

\* present, not NaN and strictly positive
UsableExpense(value) == value.k = "num" /\ value.v > 0

\* absent, None, NaN, zero or negative
SkippedExpense(value) ==
    value.k \in { "absent", "none", "nan" } \/ (value.k = "num" /\ value.v <= 0)

\* C3: with no usable expense field in the snapshot and a ticker absent from
\* the static table, the resolver yields the fraction 0.0030 and the record's
\* expense, after the x100 formatting, is 0.30.
C3_DefaultIsThirtyBasisPoints ==
    (/\ pc = "built"
     /\ \A j \in 1..Len(expense_fields) : SkippedExpense(ExpenseField(j))
     /\ ticker \notin DOMAIN known_expenses) =>
        /\ get_expense_ratio(provider.info, ticker) = [raised |-> FALSE, value |-> 3000]
        /\ out.kind = "record"
        /\ out.expense = 30

\* C4: get_expense_ratio never raises and returns a non-negative number for
\* every snapshot, text in an expense field included, so the ticker is never
\* failed on account of an expense field.
C4_ResolverNeverFails ==
    pc = "built" =>
        /\ ~get_expense_ratio(provider.info, ticker).raised
        /\ get_expense_ratio(provider.info, ticker).value >= 0
        /\ out.kind = "record"

\* C9: the first field, in the order of expense_fields, that is present, not
\* NaN and strictly positive is the value returned, whatever the lower
\* priority fields hold and whatever the static table holds for the ticker;
\* the fields before it, being absent, None, NaN, zero or negative, are
\* skipped.
C9_FirstUsableFieldWins ==
    pc = "built" =>
        \A j \in 1..Len(expense_fields) :
            (/\ UsableExpense(ExpenseField(j))
             /\ \A h \in 1..(j - 1) : SkippedExpense(ExpenseField(h))) =>
                /\ get_expense_ratio(provider.info, ticker)
                       = [raised |-> FALSE, value |-> ExpenseField(j).v]
                /\ out.kind = "record"
                /\ out.expense = RoundHalfEven(ExpenseField(j).v, 100)

C9_Witness ==
    /\ pc = "built"
    /\ ticker \in DOMAIN known_expenses
    /\ ExpenseField(1) = NaN
    /\ ExpenseField(2) = Num(-500)
    /\ ExpenseField(3) = Num(945)
    /\ ExpenseField(4) = Num(2050)
    /\ ExpenseField(5).k = "str"
    /\ out.kind = "record"
    /\ out.expense = 9

---------------------------------------------------------------------------
(* Properties of the RSI (SpecRSI) *)

\* the bars whose move from the bar before lies in the trailing window
WindowBars(hist) == Max(2, Len(hist) - RSI_WINDOW + 1)..Len(hist)

NoDownMove(hist) == \A j \in WindowBars(hist) : hist[j].Close >= hist[j - 1].Close
NoUpMove(hist) == \A j \in WindowBars(hist) : hist[j].Close <= hist[j - 1].Close

\* C5 as stated: with at least 14 bars and a zero mean loss over the
\* trailing window, the record's rsi is the default 50, whether the mean
\* gain is zero or positive.
C5_ZeroLossGivesFifty ==
    (pc = "built" /\ Len(provider.hist) >= RSI_WINDOW /\ NoDownMove(provider.hist)) =>
        out.kind = "record" /\ out.rsi = 50

\* C5 as amended: with at least 14 bars and a zero mean loss over the
\* trailing window, the call does not fail and the record's rsi is 50 when
\* the mean gain is zero too, and 100 when the mean gain is positive.
C5_ZeroLossGivesFiftyOrHundred ==
    (pc = "built" /\ Len(provider.hist) >= RSI_WINDOW /\ NoDownMove(provider.hist)) =>
        /\ out.kind = "record"
        /\ out.rsi = IF NoUpMove(provider.hist) THEN 50 ELSE 100

C5_Witness ==
    /\ pc = "built"
    /\ Len(provider.hist) > RSI_WINDOW
    /\ NoDownMove(provider.hist)
    /\ ~NoUpMove(provider.hist)
    /\ provider.hist[2].Close < provider.hist[1].Close
    /\ out.kind = "record"
    /\ out.rsi = 100

---------------------------------------------------------------------------
(* Properties of the classifier (SpecClass) *)

\* the display name the record builder classifies
DisplayName ==
    IF provider.info["longName"].k # "absent" THEN PyStr(provider.info["longName"])
    ELSE IF provider.info["shortName"].k # "absent" THEN PyStr(provider.info["shortName"])
    ELSE ticker

\* the classifier of the specification: keywords are searched in the name,
\* the ticker is compared for equality with the listed symbols
RefAssetClass(name, t) ==
    IF (\E kw \in bond_keywords : Contains(Lower(name), kw))
       \/ Lower(t) \in fixed_income_symbols
    THEN "Fixed Income"
    ELSE IF (\E kw \in commodity_keywords : Contains(Lower(name), kw))
            \/ Lower(t) \in commodity_symbols
    THEN "Commodity"
    ELSE "Equity"

\* C6: the record's asset class is the one of the reference classifier for
\* every display name and ticker; a ticker that only contains a listed symbol
\* as a proper substring, under a name without keyword, is Equity.
C6_AssetClassIsReference ==
    pc = "built" =>
        out.kind = "record" /\ out.asset = RefAssetClass(DisplayName, ticker)

---------------------------------------------------------------------------
(* Properties of the liquidity score (SpecLiq) *)

NumberOr0(value) == IF value.k = "num" THEN value.v ELSE 0

\* AUM and volume as the record builder reads them: 0 when absent or not a number
AumRead ==
    IF provider.info["totalAssets"].k # "absent"
    THEN NumberOr0(provider.info["totalAssets"])
    ELSE NumberOr0(provider.info["marketCap"])

VolumeRead == NumberOr0(provider.info["regularMarketVolume"])

---------------------------------------------------------------------------
(* Properties of the price (SpecPrice) *)

UsablePrice(value) == value.k = "num"

\* the fallback chain of the specification, first usable source wins
RefPrice ==
    IF UsablePrice(provider.info["regularMarketPrice"])
    THEN provider.info["regularMarketPrice"].v
    ELSE IF UsablePrice(provider.info["currentPrice"])
    THEN provider.info["currentPrice"].v
    ELSE IF provider.hist # << >> THEN provider.hist[Len(provider.hist)].Close
    ELSE 0

\* C8: the record's price is regularMarketPrice when usable, else
\* currentPrice when usable, else the latest close of a non-empty series,
\* else 0; a snapshot price field is unusable when its key is missing or its
\* value is None or NaN.
C8_PriceFallbackChain ==
    (/\ pc = "built"
     /\ provider.info["regularMarketPrice"].k \in { "absent", "none", "nan", "num" }
     /\ provider.info["currentPrice"].k \in { "absent", "none", "nan", "num" }) =>
        out.kind = "record" /\ out.price = RoundHalfEven(RefPrice, 10)

=============================================================================
